---------------------------- MODULE Spec2Model ----------------------------
(***************************************************************************)
(* The UMM-Var grouping prototype of Harmony:                              *)
(*   - graph/collection-data.ts   the ATL08 and RSSMIF16D catalogs         *)
(*   - graph/populate-graph.ts    loads the catalogs into neo4j in one     *)
(*                                transaction                              *)
(*   - app/frontends/ogc-coverages/util/required-variables.ts              *)
(*                                queries the graph for the variables the  *)
(*                                requested ones require and appends them  *)
(*                                to the request's varInfos                *)
(* Strings the code only compares or copies (concept ids, data types) are  *)
(* TLA+ strings.  Variable and collection names are sequences of           *)
(* one-character strings, because getVariableLabel rewrites them character *)
(* by character.  JavaScript array indices are kept 0-based.               *)
(***************************************************************************)
EXTENDS Integers, Sequences, FiniteSets, TLC

(***************************************************************************)
(* Bounds of the model.                                                    *)
(***************************************************************************)
\* variables of a bounded catalog (at most 5: see GenIds)
NumVars == 3
\* REQUIRES edges of a bounded catalog
MaxEdges == 2
\* varInfos handed to addRequiredVariables (one more in SpecBatch)
MaxVarInfos == 1
\* variables requested in one varInfo
MaxRequested == 2
\* addRequiredVariables invocations in one behaviour
MaxCalls == 2

(***************************************************************************)
(* collection-data.ts: the two catalogs.                                   *)
(***************************************************************************)
atl08 ==
  [ conceptId |-> "C1234714698-EEDTEST",
    name |-> <<"A","T","L","0","8">>,
    variables |-> <<
      [conceptId |-> "V1237330160-EEDTEST", dataType |-> "int16",
       name |-> <<"/","g","t","1","l","/","s","i","g","n","a","l","_","p","h","o","t","o","n","s","/","c","l","a","s","s","e","d","_","p","c","_","f","l","a","g">>],
      [conceptId |-> "V1237330281-EEDTEST", dataType |-> "float32",
       name |-> <<"/","g","t","1","l","/","l","a","n","d","_","s","e","g","m","e","n","t","s","/","d","e","m","_","h">>],
      [conceptId |-> "V1237332028-EEDTEST", dataType |-> "float32",
       name |-> <<"/","g","t","1","l","/","l","a","n","d","_","s","e","g","m","e","n","t","s","/","c","a","n","o","p","y","/","h","_","c","a","n","o","p","y">>],
      [conceptId |-> "V1237332356-EEDTEST", dataType |-> "float32",
       name |-> <<"/","g","t","1","l","/","l","a","n","d","_","s","e","g","m","e","n","t","s","/","l","a","t","i","t","u","d","e">>],
      [conceptId |-> "V1237332501-EEDTEST", dataType |-> "float32",
       name |-> <<"/","g","t","1","l","/","l","a","n","d","_","s","e","g","m","e","n","t","s","/","l","o","n","g","i","t","u","d","e">>],
      [conceptId |-> "V1240989290-EEDTEST", dataType |-> "float64",
       name |-> <<"/","g","t","1","l","/","s","i","g","n","a","l","_","p","h","o","t","o","n","s","/","d","e","l","t","a","_","t","i","m","e">>],
      [conceptId |-> "V1240989293-EEDTEST", dataType |-> "int32",
       name |-> <<"/","g","t","1","l","/","s","i","g","n","a","l","_","p","h","o","t","o","n","s","/","c","l","a","s","s","e","d","_","p","c","_","i","n","d","x">>],
      [conceptId |-> "V1240989295-EEDTEST", dataType |-> "int8",
       name |-> <<"/","g","t","1","l","/","s","i","g","n","a","l","_","p","h","o","t","o","n","s","/","d","_","f","l","a","g">>],
      [conceptId |-> "V1240989297-EEDTEST", dataType |-> "int32",
       name |-> <<"/","g","t","1","l","/","s","i","g","n","a","l","_","p","h","o","t","o","n","s","/","p","h","_","s","e","g","m","e","n","t","_","i","d">>],
      [conceptId |-> "V1240989299-EEDTEST", dataType |-> "float64",
       name |-> <<"/","g","t","1","l","/","l","a","n","d","_","s","e","g","m","e","n","t","s","/","d","e","l","t","a","_","t","i","m","e">>],
      [conceptId |-> "V1240989301-EEDTEST", dataType |-> "int32",
       name |-> <<"/","g","t","1","l","/","l","a","n","d","_","s","e","g","m","e","n","t","s","/","p","h","_","n","d","x","_","b","e","g">>],
      [conceptId |-> "V1240989303-EEDTEST", dataType |-> "int64",
       name |-> <<"/","g","t","1","l","/","l","a","n","d","_","s","e","g","m","e","n","t","s","/","n","_","s","e","g","_","p","h">>] >>,
    variableEdges |-> <<
      [originIndex |-> 0, destinationIndex |-> 5],
      [originIndex |-> 6, destinationIndex |-> 5],
      [originIndex |-> 7, destinationIndex |-> 5],
      [originIndex |-> 8, destinationIndex |-> 5],
      [originIndex |-> 5, destinationIndex |-> 10],
      [originIndex |-> 5, destinationIndex |-> 11],
      [originIndex |-> 10, destinationIndex |-> 3],
      [originIndex |-> 10, destinationIndex |-> 4],
      [originIndex |-> 10, destinationIndex |-> 9],
      [originIndex |-> 11, destinationIndex |-> 3],
      [originIndex |-> 11, destinationIndex |-> 4],
      [originIndex |-> 11, destinationIndex |-> 9],
      [originIndex |-> 1, destinationIndex |-> 3],
      [originIndex |-> 1, destinationIndex |-> 4],
      [originIndex |-> 1, destinationIndex |-> 9],
      [originIndex |-> 2, destinationIndex |-> 3],
      [originIndex |-> 2, destinationIndex |-> 4],
      [originIndex |-> 2, destinationIndex |-> 9],
      [originIndex |-> 3, destinationIndex |-> 9],
      [originIndex |-> 4, destinationIndex |-> 9],
      [originIndex |-> 9, destinationIndex |-> 3],
      [originIndex |-> 9, destinationIndex |-> 4],
      [originIndex |-> 4, destinationIndex |-> 3],
      [originIndex |-> 3, destinationIndex |-> 4] >> ]

rssmif16d ==
  [ conceptId |-> "C1238392622-EEDTEST",
    name |-> <<"R","S","S","M","I","F","1","6","D">>,
    variables |-> <<
      [conceptId |-> "V1238395074-EEDTEST", dataType |-> "int16",
       name |-> <<"a","t","m","o","s","p","h","e","r","e","_","w","a","t","e","r","_","v","a","p","o","r","_","c","o","n","t","e","n","t">>],
      [conceptId |-> "V1238395076-EEDTEST", dataType |-> "float32",
       name |-> <<"l","a","t","i","t","u","d","e">>],
      [conceptId |-> "V1238395077-EEDTEST", dataType |-> "int16",
       name |-> <<"r","a","i","n","f","a","l","l","_","r","a","t","e">>],
      [conceptId |-> "V1238395078-EEDTEST", dataType |-> "int16",
       name |-> <<"a","t","m","o","s","p","h","e","r","e","_","c","l","o","u","d","_","l","i","q","u","i","d","_","w","a","t","e","r","_","c","o","n","t","e","n","t">>],
      [conceptId |-> "V1238395080-EEDTEST", dataType |-> "float32",
       name |-> <<"l","o","n","g","i","t","u","d","e">>],
      [conceptId |-> "V1238395084-EEDTEST", dataType |-> "int16",
       name |-> <<"s","s","t","_","d","t","i","m","e">>],
      [conceptId |-> "V1238395085-EEDTEST", dataType |-> "int16",
       name |-> <<"w","i","n","d","_","s","p","e","e","d">>],
      [conceptId |-> "V1238395086-EEDTEST", dataType |-> "int16",
       name |-> <<"t","i","m","e">>] >>,
    variableEdges |-> <<
      [originIndex |-> 0, destinationIndex |-> 1],
      [originIndex |-> 0, destinationIndex |-> 4],
      [originIndex |-> 0, destinationIndex |-> 7],
      [originIndex |-> 2, destinationIndex |-> 1],
      [originIndex |-> 2, destinationIndex |-> 4],
      [originIndex |-> 2, destinationIndex |-> 7],
      [originIndex |-> 3, destinationIndex |-> 1],
      [originIndex |-> 3, destinationIndex |-> 4],
      [originIndex |-> 3, destinationIndex |-> 7],
      [originIndex |-> 5, destinationIndex |-> 1],
      [originIndex |-> 5, destinationIndex |-> 4],
      [originIndex |-> 5, destinationIndex |-> 7],
      [originIndex |-> 6, destinationIndex |-> 1],
      [originIndex |-> 6, destinationIndex |-> 4],
      [originIndex |-> 6, destinationIndex |-> 7] >> ]

ReadmeATL08 ==
  { <<"/","g","t","1","l","/","s","i","g","n","a","l","_","p","h","o","t","o","n","s","/","c","l","a","s","s","e","d","_","p","c","_","f","l","a","g">>,
    <<"/","g","t","1","l","/","s","i","g","n","a","l","_","p","h","o","t","o","n","s","/","d","e","l","t","a","_","t","i","m","e">>,
    <<"/","g","t","1","l","/","l","a","n","d","_","s","e","g","m","e","n","t","s","/","p","h","_","n","d","x","_","b","e","g">>,
    <<"/","g","t","1","l","/","l","a","n","d","_","s","e","g","m","e","n","t","s","/","p","h","_","s","e","g","m","e","n","t","_","i","d">>,
    <<"/","g","t","1","l","/","l","a","n","d","_","s","e","g","m","e","n","t","s","/","d","e","l","t","a","_","t","i","m","e">>,
    <<"/","g","t","1","l","/","l","a","n","d","_","s","e","g","m","e","n","t","s","/","l","a","t","i","t","u","d","e">>,
    <<"/","g","t","1","l","/","l","a","n","d","_","s","e","g","m","e","n","t","s","/","l","o","n","g","i","t","u","d","e">> }

(***************************************************************************)
(* Bounded catalogs: NumVars variables with distinct concept ids and       *)
(* names, and any list of edges between array positions.                   *)
(***************************************************************************)
GenIds == <<"V1", "V2", "V3", "V4", "V5">>

GenLetters == <<"a", "b", "c", "d", "e">>

GenVariable(i) ==
  [conceptId |-> GenIds[i], dataType |-> "float32",
   name |-> <<"/", "g", "/", GenLetters[i]>>]

GenCollection(edges) ==
  [ conceptId |-> "C1",
    name |-> <<"G">>,
    variables |-> [i \in 1..NumVars |-> GenVariable(i)],
    variableEdges |-> edges ]

\* position of an edge in the enumeration of all index pairs over lo..hi
EdgeRank(e, lo, hi) ==
  (e.originIndex - lo) * (hi - lo + 1) + (e.destinationIndex - lo)

\* Edge lists of at most MaxEdges edges with indices in lo..hi, one list per
\* multiset of edges (the order of the edges in a CREATE statement does not
\* change the graph it creates).
EdgeLists(lo, hi) ==
  LET E == [originIndex : lo..hi, destinationIndex : lo..hi]
  IN  { s \in UNION { [1..n -> E] : n \in 0..MaxEdges } :
          \A i \in 1..(Len(s) - 1) :
            EdgeRank(s[i], lo, hi) <= EdgeRank(s[i + 1], lo, hi) }

(***************************************************************************)
(* populate-graph.ts: building the CREATE statement.                       *)
(***************************************************************************)
\* variableName.replace(/^\//, '').split('/').join('_')
getVariableLabel(variableName) ==
  LET s == IF Len(variableName) > 0 /\ variableName[1] = "/"
           THEN Tail(variableName) ELSE variableName
  IN  [i \in 1..Len(s) |-> IF s[i] = "/" THEN "_" ELSE s[i]]

\* (label:Variable {ConceptId: ..., DataType: ..., Name: ...})
buildVariableVertex(variable) ==
  [var |-> getVariableLabel(variable.name), Label |-> "Variable",
   ConceptId |-> variable.conceptId, DataType |-> variable.dataType,
   Name |-> variable.name]

\* (collection)-[:HASVARIABLE]->(label)
buildHasVariableEdge(collectionName, variable) ==
  [from |-> collectionName, Type |-> "HASVARIABLE",
   to |-> getVariableLabel(variable.name)]

\* Mutant of ArrayAt: an index outside the array is clamped to its ends.
MutArrayAtClamped(array, index) ==
  IF Len(array) = 0 THEN <<>>
  ELSE IF index < 0 THEN <<array[1]>>
  ELSE IF index > Len(array) - 1 THEN <<array[Len(array)]>>
  ELSE <<array[index + 1]>>

\* array[index] of JavaScript: the element, or undefined (the empty sequence
\* here) when index is not a position of the array
ArrayAt(array, index) ==
  IF index \in 0..(Len(array) - 1) THEN <<array[index + 1]>> ELSE <<>>

\* Mutant of buildRequiresEdge: the origin's label is written at both ends.
MutBuildRequiresEdgeOriginTwice(origin, destination) ==
  IF origin = <<>> \/ destination = <<>>
  THEN [threw |-> "TypeError"]
  ELSE [threw |-> "none",
        edge |-> [from |-> getVariableLabel(origin[1].name), Type |-> "REQUIRES",
                  to |-> getVariableLabel(origin[1].name)]]

\* (origin)-[:REQUIRES]->(destination); origin and destination are results
\* of ArrayAt.  Reading .name of undefined throws a TypeError.
buildRequiresEdge(origin, destination) ==
  IF origin = <<>> \/ destination = <<>>
  THEN [threw |-> "TypeError"]
  ELSE [threw |-> "none",
        edge |-> [from |-> getVariableLabel(origin[1].name), Type |-> "REQUIRES",
                  to |-> getVariableLabel(destination[1].name)]]

\* The CREATE statement of a collection: its node patterns and its
\* relationship patterns in the order of the joined string, or the error the
\* construction throws.
getCollectionQueryString(collection) ==
  LET collectionVertex ==
        [var |-> collection.name, Label |-> "Collection",
         ConceptId |-> collection.conceptId, DataType |-> "",
         Name |-> collection.name]
      variableVertices ==
        [i \in 1..Len(collection.variables) |->
           buildVariableVertex(collection.variables[i])]
      collectionEdges ==
        [i \in 1..Len(collection.variables) |->
           buildHasVariableEdge(collection.name, collection.variables[i])]
      variableEdges ==
        [i \in 1..Len(collection.variableEdges) |->
           buildRequiresEdge(
             ArrayAt(collection.variables, collection.variableEdges[i].originIndex),
             ArrayAt(collection.variables, collection.variableEdges[i].destinationIndex))]
  IN  IF \E i \in 1..Len(variableEdges) : variableEdges[i].threw # "none"
      THEN [threw |-> "TypeError", nodes |-> <<>>, rels |-> <<>>]
      ELSE [threw |-> "none",
            nodes |-> <<collectionVertex>> \o variableVertices,
            rels |-> collectionEdges
                     \o [i \in 1..Len(variableEdges) |-> variableEdges[i].edge]]

(***************************************************************************)
(* The neo4j store.  A graph is a list of vertices and a list of edges     *)
(* between vertex positions.                                               *)
(***************************************************************************)
EmptyGraph == [vertices |-> <<>>, edges |-> <<>>]

\* CREATE: a node pattern declares its variable, and a variable declared
\* twice is an error of the statement; a relationship pattern joins the
\* vertices its two variables are bound to (getCollectionQueryString names
\* only variables it has declared).  A Collection vertex has no DataType
\* property: it is "" here.
ExecCreate(g, stmt) ==
  LET n == Len(stmt.nodes)
      declared == { stmt.nodes[i].var : i \in 1..n }
      Bound(v) == Len(g.vertices) + (CHOOSE i \in 1..n : stmt.nodes[i].var = v)
  IN  IF Cardinality(declared) # n
      THEN [ok |-> FALSE, graph |-> g]
      ELSE [ok |-> TRUE,
            graph |->
              [vertices |-> g.vertices
                 \o [i \in 1..n |->
                       [Label |-> stmt.nodes[i].Label,
                        ConceptId |-> stmt.nodes[i].ConceptId,
                        DataType |-> stmt.nodes[i].DataType,
                        Name |-> stmt.nodes[i].Name]],
               edges |-> g.edges
                 \o [j \in 1..Len(stmt.rels) |->
                       [from |-> Bound(stmt.rels[j].from),
                        Type |-> stmt.rels[j].Type,
                        to |-> Bound(stmt.rels[j].to)]]]]

\* The graph after the CREATE statements of the catalogs cats, run in order
\* on g (every statement succeeding).
RECURSIVE Loaded(_, _)
Loaded(g, cats) ==
  IF cats = <<>> THEN g
  ELSE Loaded(ExecCreate(g, getCollectionQueryString(Head(cats))).graph, Tail(cats))

(***************************************************************************)
(* required-variables.ts: the Cypher query.                                *)
(***************************************************************************)
Range(s) == { s[i] : i \in 1..Len(s) }

\* The vertex a path (a list of edge positions) ends in.
EndVertex(g, path) == g.edges[path[Len(path)]].to

\* Mutant of Extensions: an edge may be used again on the same path.
MutExtensionsAnyEdge(g, path) ==
  { k \in 1..Len(g.edges) :
      /\ g.edges[k].Type = "REQUIRES"
      /\ g.edges[k].from = EndVertex(g, path) }

\* The edges by which the pattern -[:REQUIRES *1..]-> continues a path: the
\* REQUIRES edges out of its last vertex that are not yet on the path
\* (Cypher never uses a relationship twice in one match).
Extensions(g, path) ==
  { k \in 1..Len(g.edges) :
      /\ g.edges[k].Type = "REQUIRES"
      /\ g.edges[k].from = EndVertex(g, path)
      /\ k \notin Range(path) }

\* The edges a match can begin with: the REQUIRES edges out of a Variable
\* vertex whose ConceptId is IN $requestedVariableConceptIds.
FirstEdges(g, requestedVariableConceptIds) ==
  { k \in 1..Len(g.edges) :
      /\ g.edges[k].Type = "REQUIRES"
      /\ g.vertices[g.edges[k].from].Label = "Variable"
      /\ g.vertices[g.edges[k].from].ConceptId
           \in Range(requestedVariableConceptIds) }

\* Mutant of PathsFrom: the pattern -[:REQUIRES]->, a single hop.
MutPathsFromOneHop(g, path) == {path}

\* All the paths the pattern matches that begin with `path`: the path itself
\* and all that begin with one of its extensions.
RECURSIVE PathsFrom(_, _)
PathsFrom(g, path) ==
  {path} \cup UNION { PathsFrom(g, Append(path, k)) : k \in Extensions(g, path) }

\* Mutant of MatchedPaths: the pattern -[:REQUIRES *1..1]->, paths of one edge.
MutMatchedPathsSingleHop(g, requestedVariableConceptIds) ==
  { <<k>> : k \in FirstEdges(g, requestedVariableConceptIds) }

\* MATCH (requestedVariable:Variable)-[:REQUIRES *1..]->(requiredVariable)
\* WHERE requestedVariable.ConceptId IN $requestedVariableConceptIds
MatchedPaths(g, requestedVariableConceptIds) ==
  UNION { PathsFrom(g, <<k>>) : k \in FirstEdges(g, requestedVariableConceptIds) }

\* The record RETURN makes of a matched path.
RecordOf(g, path) ==
  [ConceptId |-> g.vertices[EndVertex(g, path)].ConceptId,
   Name |-> g.vertices[EndVertex(g, path)].Name]

\* Mutant of requiredVariableQuery: the requested variables are left out of
\* the answer (a traversal that marks them visited before it starts).
MutQueryWithoutRequested(g, requestedVariableConceptIds) ==
  { r \in { RecordOf(g, p) : p \in MatchedPaths(g, requestedVariableConceptIds) } :
      r.ConceptId \notin Range(requestedVariableConceptIds) }

\* RETURN DISTINCT requiredVariable.ConceptId AS ConceptId,
\*                 requiredVariable.Name as Name
requiredVariableQuery(g, requestedVariableConceptIds) ==
  { RecordOf(g, p) : p \in MatchedPaths(g, requestedVariableConceptIds) }

\* The orders in which the store may return a set of records.
RECURSIVE Orderings(_)
Orderings(S) ==
  IF S = {} THEN {<<>>}
  ELSE UNION { { <<x>> \o s : s \in Orderings(S \ {x}) } : x \in S }

\* result.records.map(record => ({ meta: { 'concept-id': ... }, umm: { Name: ... } }))
extractVariableResults(records) ==
  [i \in 1..Len(records) |->
     [meta |-> [concept_id |-> records[i].ConceptId],
      umm |-> [Name |-> records[i].Name]]]

\* What performCypherQuery resolves with: the callback's array, or undefined
\* after .catch has logged a rejection.
Resolved(array) == [defined |-> TRUE, array |-> array]

Undefined == [defined |-> FALSE, array |-> <<>>]

(***************************************************************************)
(* required-variables.ts: addRequiredVariables.                            *)
(***************************************************************************)
\* varInfo.variables.map((variable) => variable.meta['concept-id'])
ConceptIdsOf(variables) ==
  [i \in 1..Len(variables) |-> variables[i].meta.concept_id]

\* Mutant of MergeRequired: every required variable is pushed.
MutMergeRequiredPushAll(variables, required) == variables \o required

\* Mutant of MergeRequired: the variables not yet listed are put in front.
MutMergeRequiredInFront(variables, required) ==
  LET Absent(v) == \A k \in 1..Len(variables) :
                     variables[k].meta.concept_id # v.meta.concept_id
  IN  SelectSeq(required, Absent) \o variables

\* requiredVariables.forEach: push every variable whose concept id no
\* element of varInfo.variables has yet.
RECURSIVE MergeRequired(_, _)
MergeRequired(variables, required) ==
  IF required = <<>> THEN variables
  ELSE MergeRequired(
         IF \E k \in 1..Len(variables) :
              variables[k].meta.concept_id = Head(required).meta.concept_id
         THEN variables
         ELSE Append(variables, Head(required)),
         Tail(required))

(***************************************************************************)
(* State.                                                                  *)
(***************************************************************************)
VARIABLES
  graph,        \* the committed content of the neo4j database
  collections,  \* the catalogs populateDatabase loads, in order
  pop,          \* the populate-graph script: main and populateDatabase
  heap,         \* the VariableInfo objects of the requests
  call,         \* the invocations of addRequiredVariables
  runs          \* the queries sent with session.run by getRequiredVariables

vars == <<graph, collections, pop, heap, call, runs>>

Calls == 1..MaxCalls

\* An invocation that has not been made yet.
IdleCall ==
  [pc |-> "idle", args |-> <<>>, i |-> 0, ids |-> <<>>,
   driver |-> "none", session |-> "none",
   expand |-> <<>>, matched |-> {},
   requiredVariables |-> Undefined, caught |-> "none", thrown |-> "none",
   before |-> <<>>]

\* The script before main() runs.
IdlePop ==
  [pc |-> "idle", tx |-> "none", work |-> EmptyGraph, step |-> 0,
   session |-> "none", driver |-> "none", thrown |-> "none",
   rejected |-> FALSE, before |-> EmptyGraph]

\* A variable of a catalog as a request carries it.
Requested(collection, index) ==
  [meta |-> [concept_id |-> collection.variables[index + 1].conceptId],
   umm |-> [Name |-> collection.variables[index + 1].name]]

\* Variable i of a bounded catalog as a request carries it.
GenRequested(i) ==
  [meta |-> [concept_id |-> GenIds[i]], umm |-> [Name |-> GenVariable(i).name]]

\* The variables lists of a request, up to the numbering of the catalog's
\* variables (the catalogs range over all edge lists): the first n variables
\* in order; the same after a variable the catalog does not have
\* (NumVars + 1); the same after the first variable once more.  n is at
\* most MaxRequested.
RequestLists ==
  LET plain == [k \in 1..MaxRequested |-> k]
      unknownFirst == [k \in 1..MaxRequested |-> IF k = 1 THEN NumVars + 1 ELSE k - 1]
      repeatFirst == [k \in 1..MaxRequested |-> IF k = 1 THEN 1 ELSE k - 1]
  IN  { [k \in 1..n |-> GenRequested(order[k])] :
          n \in 0..MaxRequested, order \in {plain, unknownFirst, repeatFirst} }

\* has: the object has a 'variables' property of its own.
VarInfos ==
  {[has |-> FALSE, variables |-> <<>>]}
  \cup { [has |-> TRUE, variables |-> l] : l \in RequestLists }

\* The arrays of at most n varInfos.
Heaps(n) == UNION { [1..k -> VarInfos] : k \in 1..n }

\* The database holds a bounded catalog and a request is about to be made.
InitWith(heaps) ==
  /\ \E edges \in EdgeLists(0, NumVars - 1) :
       /\ collections = <<GenCollection(edges)>>
       /\ graph = Loaded(EmptyGraph, collections)
  /\ pop = IdlePop
  /\ heap \in heaps
  /\ call = [c \in Calls |-> IdleCall]
  /\ runs = <<>>

\* The requests are any arrays of at most MaxVarInfos varInfos.
Init == InitWith(Heaps(MaxVarInfos))

(***************************************************************************)
(* addRequiredVariables and getRequiredVariables, one action per stretch   *)
(* of code between two awaits.                                             *)
(***************************************************************************)
\* The first position at or after `from` of a varInfo with a 'variables'
\* property, Len(args) + 1 when there is none.
NextWithVariables(h, args, from) ==
  IF \E j \in from..Len(args) : h[args[j]].has
  THEN CHOOSE j \in from..Len(args) :
         /\ h[args[j]].has
         /\ \A k \in from..(j - 1) : ~h[args[k]].has
  ELSE Len(args) + 1

\* The for loop from position `from` up to its next await: varInfos without
\* variables are passed over; for the first one with variables the concept
\* ids are collected and getRequiredVariables opens a driver and a session
\* and sends the query; past the last varInfo the function returns.
LoopFrom(c, cr, h, from) ==
  LET j == NextWithVariables(h, cr.args, from)
  IN  IF j > Len(cr.args)
      THEN /\ call' = [call EXCEPT ![c] = [cr EXCEPT !.pc = "done", !.i = j]]
           /\ runs' = runs
      ELSE LET ids == ConceptIdsOf(h[cr.args[j]].variables)
           IN  /\ call' = [call EXCEPT ![c] =
                              [cr EXCEPT !.pc = "awaitRun", !.i = j, !.ids = ids,
                                         !.driver = "open", !.session = "open",
                                         !.requiredVariables = Undefined]]
               /\ runs' = Append(runs, [call |-> c, ref |-> cr.args[j], ids |-> ids])

\* addRequiredVariables(varInfos) is called with all the varInfos, once the
\* invocations before it have returned.
StartCall(c) ==
  /\ call[c].pc = "idle"
  /\ \A d \in 1..(c - 1) : call[d].pc = "done"
  /\ LoopFrom(c, [call[c] EXCEPT !.args = [k \in 1..Len(heap) |-> k],
                                  !.before = heap],
              heap, 1)
  /\ UNCHANGED <<graph, collections, pop, heap>>

\* session.run resolves: .then maps the records, .finally closes the session.
RunResolves(c) ==
  /\ call[c].pc = "awaitRun"
  /\ \E records \in Orderings(requiredVariableQuery(graph, call[c].ids)) :
       call' = [call EXCEPT ![c].pc = "awaitSessionClose",
                            ![c].requiredVariables =
                               Resolved(extractVariableResults(records))]
  /\ UNCHANGED <<graph, collections, pop, heap, runs>>

\* Mutant of RunRejects: the rejection passes by .finally, and the session
\* is not closed.
MutRunRejectsSkipsFinally(c) ==
  /\ call[c].pc = "awaitRun"
  /\ call' = [call EXCEPT ![c].pc = "awaitDriverClose",
                          ![c].requiredVariables = Undefined,
                          ![c].caught = "session.run"]
  /\ UNCHANGED <<graph, collections, pop, heap, runs>>

\* session.run rejects: .catch logs the error and yields undefined,
\* .finally closes the session.
RunRejects(c) ==
  /\ call[c].pc = "awaitRun"
  /\ call' = [call EXCEPT ![c].pc = "awaitSessionClose",
                          ![c].requiredVariables = Undefined,
                          ![c].caught = "session.run"]
  /\ UNCHANGED <<graph, collections, pop, heap, runs>>

\* session.close() resolves: performCypherQuery's promise settles and
\* getRequiredVariables goes on to driver.close().
SessionClosed(c) ==
  /\ call[c].pc = "awaitSessionClose"
  /\ call' = [call EXCEPT ![c].pc = "awaitDriverClose", ![c].session = "closed"]
  /\ UNCHANGED <<graph, collections, pop, heap, runs>>

\* Mutant of DriverClosed: a row is pushed unless its concept id is among
\* the ids read before the await.
MutDriverClosedStaleIds(c) ==
  /\ call[c].pc = "awaitDriverClose"
  /\ LET cr == [call[c] EXCEPT !.driver = "closed"]
         ref == cr.args[cr.i]
         Absent(v) == v.meta.concept_id \notin Range(cr.ids)
     IN  IF ~cr.requiredVariables.defined
         THEN /\ call' = [call EXCEPT ![c] =
                             [cr EXCEPT !.pc = "threw", !.thrown = "TypeError"]]
              /\ UNCHANGED <<heap, runs>>
         ELSE /\ heap' = [heap EXCEPT ![ref].variables =
                             @ \o SelectSeq(cr.requiredVariables.array, Absent)]
              /\ LoopFrom(c, [cr EXCEPT !.ids = <<>>,
                                        !.requiredVariables = Undefined],
                          heap', cr.i + 1)
  /\ UNCHANGED <<graph, collections, pop>>

\* driver.close() resolves: getRequiredVariables returns requiredVariables,
\* addRequiredVariables does requiredVariables.forEach (a TypeError on
\* undefined) and goes round the loop; the constants of the loop body
\* (requestedVariableConceptIds, requiredVariables) go out of scope.
DriverClosed(c) ==
  /\ call[c].pc = "awaitDriverClose"
  /\ LET cr == [call[c] EXCEPT !.driver = "closed"]
         ref == cr.args[cr.i]
     IN  IF ~cr.requiredVariables.defined
         THEN /\ call' = [call EXCEPT ![c] =
                             [cr EXCEPT !.pc = "threw", !.thrown = "TypeError"]]
              /\ UNCHANGED <<heap, runs>>
         ELSE /\ heap' = [heap EXCEPT ![ref].variables =
                             MergeRequired(@, cr.requiredVariables.array)]
              /\ LoopFrom(c, [cr EXCEPT !.ids = <<>>,
                                        !.requiredVariables = Undefined],
                          heap', cr.i + 1)
  /\ UNCHANGED <<graph, collections, pop>>

\* The steps of the invocations C.
NextCalls(C) ==
  \E c \in C :
    \/ StartCall(c)
    \/ RunResolves(c)
    \/ RunRejects(c)
    \/ SessionClosed(c)
    \/ DriverClosed(c)

\* One invocation.
Next == NextCalls({1})

Spec == Init /\ [][Next]_vars

\* The same with one more varInfo in the array.
InitBatch == InitWith(Heaps(MaxVarInfos + 1))

SpecBatch == InitBatch /\ [][Next]_vars

\* The arrays of Heaps(MaxVarInfos), and the arrays of one varInfo with a
\* variables property and one without, in either order.
MixedHeaps ==
  Heaps(MaxVarInfos)
  \cup { <<[has |-> FALSE, variables |-> <<>>], v>> : v \in VarInfos }
  \cup { <<v, [has |-> FALSE, variables |-> <<>>]>> : v \in VarInfos }

InitMixed == InitWith(MixedHeaps)

SpecMixed == InitMixed /\ [][Next]_vars

\* Invocations one after the other on the same varInfos.
NextAgain == NextCalls(Calls)

SpecAgain == Init /\ [][NextAgain]_vars

(***************************************************************************)
(* performCypherQuery with a results callback that may throw.              *)
(***************************************************************************)
\* session.run resolves and resultsCallback throws (or its promise
\* rejects): .catch logs the error and yields undefined, .finally closes the
\* session.  performCypherQuery takes any callback.
ResultsCallbackThrows(c) ==
  /\ call[c].pc = "awaitRun"
  /\ call' = [call EXCEPT ![c].pc = "awaitSessionClose",
                          ![c].requiredVariables = Undefined,
                          ![c].caught = "resultsCallback"]
  /\ UNCHANGED <<graph, collections, pop, heap, runs>>

\* One invocation.
NextLifecycle ==
  \/ Next
  \/ ResultsCallbackThrows(1)

\* One varInfo, or two with a variable each.  The event loop runs every
\* continuation that is ready, and the store answers every query, with rows
\* or with an error.
InitLifecycle ==
  InitWith(Heaps(1)
           \cup { <<[has |-> TRUE, variables |-> <<GenRequested(1)>>],
                    [has |-> TRUE, variables |-> <<GenRequested(2)>>]>> })

SpecLifecycle == InitLifecycle /\ [][NextLifecycle]_vars /\ WF_vars(NextLifecycle)

(***************************************************************************)
(* Two invocations whose awaits interleave.                                *)
(***************************************************************************)
\* The two invocations.
Overlapping == {1, 2}

\* addRequiredVariables(varInfos) is called with all the varInfos; the
\* invocations made before it need not have returned.
StartOverlapping(c) ==
  /\ call[c].pc = "idle"
  /\ \A d \in 1..(c - 1) : call[d].pc # "idle"
  /\ LoopFrom(c, [call[c] EXCEPT !.args = [k \in 1..Len(heap) |-> k],
                                  !.before = heap],
              heap, 1)
  /\ UNCHANGED <<graph, collections, pop, heap>>

\* The event loop runs one ready continuation of either invocation.
NextOverlapping ==
  \E c \in Overlapping :
    \/ StartOverlapping(c)
    \/ RunResolves(c)
    \/ RunRejects(c)
    \/ SessionClosed(c)
    \/ DriverClosed(c)

\* Any one varInfo, or two varInfos of which one names the first and the
\* other the second variable of the catalog.
OverlappingHeaps ==
  Heaps(1)
  \cup { <<[has |-> TRUE, variables |-> <<GenRequested(1)>>],
           [has |-> TRUE, variables |-> <<GenRequested(2)>>]>> }

InitOverlapping == InitWith(OverlappingHeaps)

SpecOverlapping == InitOverlapping /\ [][NextOverlapping]_vars

(***************************************************************************)
(* The store answering the query path by path.                             *)
(***************************************************************************)
\* The members of a set of numbers in ascending order.
RECURSIVE Ascending(_)
Ascending(S) ==
  IF S = {} THEN <<>>
  ELSE LET m == CHOOSE x \in S : \A y \in S : x <= y
       IN  <<m>> \o Ascending(S \ {m})

\* The store takes up the query: the one-edge paths out of the requested
\* variables are to be expanded.
MatchBegin(c) ==
  /\ call[c].pc = "awaitRun"
  /\ call' = [call EXCEPT
       ![c].pc = "matching",
       ![c].matched = {},
       ![c].expand = [n \in 1..Cardinality(FirstEdges(graph, call[c].ids)) |->
                        <<Ascending(FirstEdges(graph, call[c].ids))[n]>>]]
  /\ UNCHANGED <<graph, collections, pop, heap, runs>>

\* The store matches the next path and notes its extensions, depth first.
MatchStep(c) ==
  /\ call[c].pc = "matching"
  /\ call[c].expand # <<>>
  /\ LET path == Head(call[c].expand)
         more == Ascending(Extensions(graph, path))
     IN  call' = [call EXCEPT
           ![c].matched = @ \cup {path},
           ![c].expand = [n \in 1..Len(more) |-> Append(path, more[n])]
                           \o Tail(call[c].expand)]
  /\ UNCHANGED <<graph, collections, pop, heap, runs>>

\* No path is left to expand: session.run resolves with the distinct
\* records of the matched paths, in some order; .then maps them, .finally
\* closes the session.
MatchResolves(c) ==
  /\ call[c].pc = "matching"
  /\ call[c].expand = <<>>
  /\ \E records \in Orderings({ RecordOf(graph, p) : p \in call[c].matched }) :
       call' = [call EXCEPT ![c].pc = "awaitSessionClose",
                            ![c].requiredVariables =
                               Resolved(extractVariableResults(records))]
  /\ UNCHANGED <<graph, collections, pop, heap, runs>>

\* The store fails while it works on the query: session.run rejects.
MatchRejects(c) ==
  /\ call[c].pc = "matching"
  /\ call' = [call EXCEPT ![c].pc = "awaitSessionClose",
                          ![c].requiredVariables = Undefined,
                          ![c].caught = "session.run"]
  /\ UNCHANGED <<graph, collections, pop, heap, runs>>

\* One invocation against a store that answers path by path.
NextMatch ==
  \/ StartCall(1)
  \/ MatchBegin(1)
  \/ MatchStep(1)
  \/ MatchResolves(1)
  \/ MatchRejects(1)
  \/ SessionClosed(1)
  \/ DriverClosed(1)

\* One varInfo that names ATL08's latitude, longitude or delta_time of
\* land_segments, which require one another.
CycleHeaps ==
  { <<[has |-> TRUE, variables |-> <<Requested(atl08, i)>>]>> : i \in {3, 4, 9} }

\* The database holds a bounded catalog and the request is any one varInfo,
\* or it holds the two catalogs of the script and the request is for one of
\* the mutually requiring variables.
InitMatch ==
  /\ \/ /\ \E edges \in EdgeLists(0, NumVars - 1) :
             collections = <<GenCollection(edges)>>
        /\ heap \in Heaps(1)
     \/ /\ collections = <<rssmif16d, atl08>>
        /\ heap \in CycleHeaps
  /\ graph = Loaded(EmptyGraph, collections)
  /\ pop = IdlePop
  /\ call = [c \in Calls |-> IdleCall]
  /\ runs = <<>>

\* The event loop runs every continuation that is ready, and the store goes
\* on with a query it has taken up.
SpecMatch == InitMatch /\ [][NextMatch]_vars /\ WF_vars(NextMatch)

(***************************************************************************)
(* populate-graph.ts: main and populateDatabase, one action per stretch of *)
(* code between two awaits.                                                *)
(***************************************************************************)
\* The catch block: the error is logged and transaction.rollback() is sent.
PopCatch(pr, error) ==
  [pr EXCEPT !.pc = "awaitRollback", !.thrown = error]

\* Mutant of PopProceed: the commit is sent once one collection is created.
MutPopProceedCommitAfterFirst(pr, n) ==
  IF n > 1
  THEN [pr EXCEPT !.pc = "awaitCommit"]
  ELSE IF getCollectionQueryString(collections[n]).threw # "none"
       THEN PopCatch(pr, getCollectionQueryString(collections[n]).threw)
       ELSE [pr EXCEPT !.pc = "awaitCreate", !.step = n]

\* The try block after n - 1 collections are created: the CREATE statement
\* of collection n is built (which may throw) and sent, or after the last
\* one transaction.commit() is sent.
PopProceed(pr, n) ==
  IF n > Len(collections)
  THEN [pr EXCEPT !.pc = "awaitCommit"]
  ELSE IF getCollectionQueryString(collections[n]).threw # "none"
       THEN PopCatch(pr, getCollectionQueryString(collections[n]).threw)
       ELSE [pr EXCEPT !.pc = "awaitCreate", !.step = n]

\* main(): a driver and a write session are made; populateDatabase begins a
\* transaction and sends MATCH (vertex) DETACH DELETE vertex.
PopStart ==
  /\ pop.pc = "idle"
  /\ pop' = [pop EXCEPT !.pc = "awaitDelete", !.driver = "open",
                         !.session = "open", !.tx = "active",
                         !.work = graph, !.before = graph]
  /\ UNCHANGED <<graph, collections, heap, call, runs>>

\* The delete resolves: the transaction sees no vertex and no edge.
PopDeleteResolves ==
  /\ pop.pc = "awaitDelete"
  /\ pop' = PopProceed([pop EXCEPT !.work = EmptyGraph], 1)
  /\ UNCHANGED <<graph, collections, heap, call, runs>>

\* The delete rejects.
PopDeleteRejects ==
  /\ pop.pc = "awaitDelete"
  /\ pop' = PopCatch(pop, "Neo4jError")
  /\ UNCHANGED <<graph, collections, heap, call, runs>>

\* A CREATE resolves: the transaction sees the new vertices and edges.
PopCreateResolves ==
  /\ pop.pc = "awaitCreate"
  /\ LET done == ExecCreate(pop.work, getCollectionQueryString(collections[pop.step]))
     IN  /\ done.ok
         /\ pop' = PopProceed([pop EXCEPT !.work = done.graph], pop.step + 1)
  /\ UNCHANGED <<graph, collections, heap, call, runs>>

\* A CREATE rejects (the statement is in error, or the store fails).
PopCreateRejects ==
  /\ pop.pc = "awaitCreate"
  /\ pop' = PopCatch(pop, "Neo4jError")
  /\ UNCHANGED <<graph, collections, heap, call, runs>>

\* The commit resolves: the database holds what the transaction saw; the
\* finally block sends session.close().
PopCommitResolves ==
  /\ pop.pc = "awaitCommit"
  /\ graph' = pop.work
  /\ pop' = [pop EXCEPT !.pc = "awaitSessionClose", !.tx = "committed"]
  /\ UNCHANGED <<collections, heap, call, runs>>

\* The commit rejects: the transaction has failed and nothing is committed.
PopCommitRejects ==
  /\ pop.pc = "awaitCommit"
  /\ pop' = PopCatch([pop EXCEPT !.tx = "failed"], "Neo4jError")
  /\ UNCHANGED <<graph, collections, heap, call, runs>>

\* The rollback resolves; the finally block sends session.close().
PopRollbackResolves ==
  /\ pop.pc = "awaitRollback"
  /\ pop' = [pop EXCEPT !.pc = "awaitSessionClose",
                         !.tx = IF @ = "active" THEN "rolledBack" ELSE @]
  /\ UNCHANGED <<graph, collections, heap, call, runs>>

\* The rollback rejects: the error leaves the catch block; the finally
\* block sends session.close().
PopRollbackRejects ==
  /\ pop.pc = "awaitRollback"
  /\ pop' = [pop EXCEPT !.pc = "awaitSessionClose", !.tx = "failed",
                         !.rejected = TRUE]
  /\ UNCHANGED <<graph, collections, heap, call, runs>>

\* session.close() resolves: populateDatabase settles; main goes on to
\* driver.close() unless populateDatabase rejected.
PopSessionClosed ==
  /\ pop.pc = "awaitSessionClose"
  /\ pop' = [pop EXCEPT !.session = "closed",
                         !.pc = IF pop.rejected THEN "failed" ELSE "awaitDriverClose"]
  /\ UNCHANGED <<graph, collections, heap, call, runs>>

\* driver.close() resolves: main returns.
PopDriverClosed ==
  /\ pop.pc = "awaitDriverClose"
  /\ pop' = [pop EXCEPT !.driver = "closed", !.pc = "done"]
  /\ UNCHANGED <<graph, collections, heap, call, runs>>

NextPopulate ==
  \/ PopStart
  \/ PopDeleteResolves
  \/ PopDeleteRejects
  \/ PopCreateResolves
  \/ PopCreateRejects
  \/ PopCommitResolves
  \/ PopCommitRejects
  \/ PopRollbackResolves
  \/ PopRollbackRejects
  \/ PopSessionClosed
  \/ PopDriverClosed

(***************************************************************************)
(* Loading bounded catalogs, well formed or not.                           *)
(***************************************************************************)
\* A catalog with two variables whose names differ and whose labels agree.
ClashCollection ==
  [ conceptId |-> "C2",
    name |-> <<"K">>,
    variables |-> <<
      [conceptId |-> "V1", dataType |-> "float32", name |-> <<"/", "g", "/", "a">>],
      [conceptId |-> "V2", dataType |-> "float32", name |-> <<"g", "_", "a">>] >>,
    variableEdges |-> <<[originIndex |-> 0, destinationIndex |-> 1]>> ]

\* Bounded catalogs whose edges may name the positions -1 and NumVars, which
\* no variable has.
LoadCollections ==
  { GenCollection(edges) : edges \in EdgeLists(-1, NumVars) } \cup {ClashCollection}

\* The script is about to run on an empty or a loaded database, with a
\* bounded catalog in place of one of the two.
InitLoad ==
  /\ \E c \in LoadCollections :
       collections \in {<<rssmif16d, c>>, <<c, atl08>>}
  /\ graph \in {EmptyGraph, Loaded(EmptyGraph, <<GenCollection(<<>>)>>)}
  /\ pop = IdlePop
  /\ heap = <<>>
  /\ call = [c \in Calls |-> IdleCall]
  /\ runs = <<>>

SpecLoad == InitLoad /\ [][NextPopulate]_vars

(***************************************************************************)
(* The script run on the two catalogs, and requests made afterwards.       *)
(***************************************************************************)
\* One varInfo that names one variable of ATL08 or of RSSMIF16D.
FixtureHeaps ==
  { <<[has |-> TRUE, variables |-> <<Requested(atl08, i)>>]>> :
      i \in 0..(Len(atl08.variables) - 1) }
  \cup { <<[has |-> TRUE, variables |-> <<Requested(rssmif16d, i)>>]>> :
           i \in 0..(Len(rssmif16d.variables) - 1) }

InitFixture ==
  /\ collections = <<rssmif16d, atl08>>
  /\ graph = EmptyGraph
  /\ pop = IdlePop
  /\ heap \in FixtureHeaps
  /\ call = [c \in Calls |-> IdleCall]
  /\ runs = <<>>

\* One request is made once the script has ended.
NextFixture ==
  \/ NextPopulate
  \/ (pop.pc \in {"done", "failed"} /\ Next)

SpecFixture == InitFixture /\ [][NextFixture]_vars

(***************************************************************************)
(* What the catalogs say, for stating the properties.                      *)
(***************************************************************************)
IdSet(variables) == { variables[k].meta.concept_id : k \in 1..Len(variables) }

NoRepeatedId(variables) ==
  \A j, k \in 1..Len(variables) :
    variables[j].meta.concept_id = variables[k].meta.concept_id => j = k

\* The pairs <<origin id, destination id>> of the catalogs' edges.
CatalogRequires(cats) ==
  UNION { { <<cats[n].variables[cats[n].variableEdges[e].originIndex + 1].conceptId,
              cats[n].variables[cats[n].variableEdges[e].destinationIndex + 1].conceptId>> :
              e \in 1..Len(cats[n].variableEdges) } :
          n \in 1..Len(cats) }

\* The ids some member of S requires directly.
RequiredBy(cats, S) == { r[2] : r \in { q \in CatalogRequires(cats) : q[1] \in S } }

\* The least set that contains S and every id a member requires.
RECURSIVE Closure(_, _)
Closure(cats, S) ==
  IF RequiredBy(cats, S) \subseteq S THEN S
  ELSE Closure(cats, S \cup RequiredBy(cats, S))

\* The ids reachable from a member of S by one or more edges.
ReachablePlus(cats, S) == Closure(cats, RequiredBy(cats, S))

\* The invocation c has ended and none after it has begun.
LastEnded(c) ==
  /\ call[c].pc \in {"done", "threw"}
  /\ \A d \in Calls : d > c => call[d].pc = "idle"

(***************************************************************************)
(* Properties.                                                             *)
(***************************************************************************)
\* C1: when addRequiredVariables has returned, the concept ids of every
\* varInfo's variables are exactly the least fixed point of "add what a
\* member requires" started from the ids it held at the call.
C1_ClosureCorrect ==
  \A c \in Calls :
    call[c].pc = "done" =>
      \A ref \in 1..Len(heap) :
        heap[ref].has =>
          IdSet(heap[ref].variables)
            = Closure(collections, IdSet(call[c].before[ref].variables))

\* C1 witness: a call has returned after appending two or more variables to
\* a varInfo that named one.
C1_Witness ==
  /\ call[1].pc = "done"
  /\ \E ref \in 1..Len(heap) :
       /\ Len(call[1].before[ref].variables) = 1
       /\ Len(heap[ref].variables) >= 3

\* C2: when a call has ended in an error, every variables list is as it was
\* at the call.
C2_NoPartialResults ==
  \A c \in Calls :
    (call[c].pc = "threw" /\ LastEnded(c)) =>
      /\ call[c].thrown # "none"
      /\ \A ref \in 1..Len(heap) :
           heap[ref].variables = call[c].before[ref].variables

\* C3: performCypherQuery never settles with a missing result:
\* getRequiredVariables gets past its await only with an array.
C3_FailureNotSwallowed ==
  \A c \in Calls :
    call[c].pc = "awaitDriverClose" => call[c].requiredVariables.defined

\* C4: no query is sent for a varInfo whose variables list is empty.
C4_EmptyInputNoStoreCall ==
  \A k \in 1..Len(runs) : runs[k].ids # <<>>

\* C5: when addRequiredVariables has returned, a variables list that had no
\* concept id twice at the call has none twice.
C5_NoDuplicates ==
  \A c \in Calls :
    call[c].pc = "done" =>
      \A ref \in 1..Len(heap) :
        NoRepeatedId(call[c].before[ref].variables)
          => NoRepeatedId(heap[ref].variables)

\* C5 witness: the call has returned; the list had no repeats, one of its
\* variables is required by a variable of the list, and a variable was
\* appended.
C5_Witness ==
  /\ call[1].pc = "done"
  /\ Len(heap) = 1
  /\ NoRepeatedId(call[1].before[1].variables)
  /\ ReachablePlus(collections, IdSet(call[1].before[1].variables))
       \cap IdSet(call[1].before[1].variables) # {}
  /\ Len(heap[1].variables) > Len(call[1].before[1].variables)

\* C6: a call that returns after another has returned leaves every variables
\* list as it found it.
C6_Idempotent ==
  \A c \in Calls :
    (c > 1 /\ call[c].pc = "done" /\ call[c - 1].pc = "done") =>
      \A ref \in 1..Len(heap) :
        heap[ref].variables = call[c].before[ref].variables

\* C6 witness: two calls have returned, and the first one appended.
C6_Witness ==
  /\ call[1].pc = "done"
  /\ call[2].pc = "done"
  /\ \E ref \in 1..Len(heap) :
       Len(call[2].before[ref].variables) > Len(call[1].before[ref].variables)

\* C8 as claimed: a requested id is among the records the store returned
\* only if another requested id reaches it.
C8_SeedOnlyFromAnotherSeed ==
  \A c \in Calls :
    (call[c].pc = "awaitSessionClose" /\ call[c].requiredVariables.defined) =>
      \A s \in Range(call[c].ids) :
        s \in IdSet(call[c].requiredVariables.array)
          => \E t \in Range(call[c].ids) \ {s} :
               s \in ReachablePlus(collections, {t})

\* C8 amended: a requested id is among the records the store returned
\* exactly if some requested id, itself included, reaches it by one or more
\* edges.
C8_SeedIffReachable ==
  \A c \in Calls :
    (call[c].pc = "awaitSessionClose" /\ call[c].requiredVariables.defined) =>
      \A s \in Range(call[c].ids) :
        s \in IdSet(call[c].requiredVariables.array)
          <=> s \in ReachablePlus(collections, Range(call[c].ids))

\* C8 witness: the records returned for a single requested id include it.
C8_Witness ==
  /\ call[1].pc = "awaitSessionClose"
  /\ call[1].requiredVariables.defined
  /\ Len(call[1].ids) = 1
  /\ call[1].ids[1] \in IdSet(call[1].requiredVariables.array)

\* The call was made for P0 of ATL08 alone, on the database the script
\* committed, and has returned.
C9_Case ==
  /\ call[1].pc = "done"
  /\ pop.tx = "committed"
  /\ call[1].before = <<[has |-> TRUE, variables |-> <<Requested(atl08, 0)>>]>>

Dangling(collection) ==
  \E e \in 1..Len(collection.variableEdges) :
    \/ collection.variableEdges[e].originIndex
         \notin 0..(Len(collection.variables) - 1)
    \/ collection.variableEdges[e].destinationIndex
         \notin 0..(Len(collection.variables) - 1)

SomeDangling == \E n \in 1..Len(collections) : Dangling(collections[n])

\* C10 as claimed: with a dangling edge in a catalog the script ends with a
\* CatalogIntegrityError and nothing committed.
C10_CatalogIntegrityError ==
  (SomeDangling /\ pop.pc \in {"done", "failed"}) =>
    /\ pop.thrown = "CatalogIntegrityError"
    /\ graph = pop.before

\* C10 amended: with a dangling edge in a catalog, no CREATE statement is
\* sent for that catalog and no commit is sent, the database keeps the
\* content it had, and the script ends after populateDatabase caught an
\* error (the TypeError of getCollectionQueryString, or a store error
\* before it) and sent a rollback; every edge of the database joins two of
\* its vertices.
C10_DanglingNeverCommitted ==
  /\ \A k \in 1..Len(graph.edges) :
       /\ graph.edges[k].from \in 1..Len(graph.vertices)
       /\ graph.edges[k].to \in 1..Len(graph.vertices)
  /\ SomeDangling =>
       /\ pop.pc = "awaitCreate" => ~Dangling(collections[pop.step])
       /\ pop.pc # "awaitCommit"
       /\ pop.tx # "committed"
       /\ pop.pc # "idle" => graph = pop.before
       /\ pop.pc \in {"done", "failed"} => pop.thrown \in {"TypeError", "Neo4jError"}

\* C10 witness: the second catalog has a dangling edge; the first was
\* created in the transaction, the TypeError was caught, the transaction was
\* rolled back and the script has ended.
C10_Witness ==
  /\ Dangling(collections[2])
  /\ ~Dangling(collections[1])
  /\ pop.pc = "done"
  /\ pop.thrown = "TypeError"
  /\ pop.tx = "rolledBack"
  /\ pop.work # EmptyGraph
  /\ pop.before # EmptyGraph
  /\ graph = pop.before

\* The catalogs of a database whose only edges are a -> b and b -> a.
TwoCycle(a, b) == a # b /\ CatalogRequires(collections) = {<<a, b>>, <<b, a>>}

\* C7 as claimed: the resolution reaches every vertex once at most: no two
\* matched paths end in the same vertex.
C7_EachNodeVisitedOnce ==
  \A p, q \in call[1].matched :
    EndVertex(graph, p) = EndVertex(graph, q) => p = q

\* What holds of every state of a resolution.
C7_Safe ==
  \* no path the store matches or is about to match uses an edge twice
  /\ \A p \in call[1].matched \cup Range(call[1].expand) :
       /\ Cardinality(Range(p)) = Len(p)
       /\ Len(p) <= Len(graph.edges)
  \* the answer names every variable once at most, and is the answer of the
  \* query
  /\ (call[1].pc = "awaitSessionClose" /\ call[1].requiredVariables.defined) =>
       /\ NoRepeatedId(call[1].requiredVariables.array)
       /\ IdSet(call[1].requiredVariables.array)
            = { r.ConceptId : r \in requiredVariableQuery(graph, call[1].ids) }
  \* requesting a or b of a two-cycle yields both, and requesting one of
  \* ATL08's latitude, longitude and delta_time yields the three
  /\ call[1].pc = "done" =>
       /\ \A a, b \in Range(GenIds) :
            (TwoCycle(a, b) /\ IdSet(call[1].before[1].variables) = {a})
              => IdSet(heap[1].variables) = {a, b}
       /\ call[1].before \in CycleHeaps =>
            Range(heap[1].variables) = { Requested(atl08, i) : i \in {3, 4, 9} }

\* C7 amended: the resolution matches only paths that use no REQUIRES edge
\* twice (a vertex may be the end of several of them; the answer names it
\* once), a query the store has taken up is answered or fails, and
\* requesting a or b of a two-cycle yields {a, b}.
C7_CycleSafe ==
  /\ []C7_Safe
  /\ (call[1].pc = "matching") ~> (call[1].pc = "awaitSessionClose")

\* C7 witness: a was requested of a two-cycle a -> b -> a; the store matched
\* the path that comes back to a, and the call has returned {a, b}.
C7_Witness ==
  /\ call[1].pc = "done"
  /\ \E a, b \in Range(GenIds) :
       /\ TwoCycle(a, b)
       /\ ConceptIdsOf(call[1].before[1].variables) = <<a>>
       /\ IdSet(heap[1].variables) = {a, b}
  /\ \E p \in call[1].matched :
       /\ Len(p) = 2
       /\ graph.vertices[EndVertex(graph, p)].ConceptId
            \in IdSet(call[1].before[1].variables)

(***************************************************************************)
(* The script run on a database that may hold data already.                *)
(***************************************************************************)
\* The script is about to run, on its two catalogs or with a bounded catalog
\* in place of one of them, on a database that is empty, holds a bounded
\* catalog, or holds what an earlier run of the script committed.
InitPopulate ==
  /\ \/ collections = <<rssmif16d, atl08>>
     \/ \E c \in LoadCollections :
          collections \in {<<rssmif16d, c>>, <<c, atl08>>}
  /\ graph \in {EmptyGraph, Loaded(EmptyGraph, <<GenCollection(<<>>)>>),
                Loaded(EmptyGraph, <<rssmif16d, atl08>>)}
  /\ pop = IdlePop
  /\ heap = <<>>
  /\ call = [c \in Calls |-> IdleCall]
  /\ runs = <<>>

SpecPopulate == InitPopulate /\ [][NextPopulate]_vars

\* The vertices the catalogs describe: each collection and then its
\* variables.
RECURSIVE CatalogVertices(_)
CatalogVertices(cats) ==
  IF cats = <<>> THEN <<>>
  ELSE <<[Label |-> "Collection", ConceptId |-> Head(cats).conceptId,
          DataType |-> "", Name |-> Head(cats).name]>>
       \o [i \in 1..Len(Head(cats).variables) |->
             [Label |-> "Variable",
              ConceptId |-> Head(cats).variables[i].conceptId,
              DataType |-> Head(cats).variables[i].dataType,
              Name |-> Head(cats).variables[i].name]]
       \o CatalogVertices(Tail(cats))

\* The pairs <<collection id, variable id>> of the catalogs.
CatalogHasVariable(cats) ==
  UNION { { <<cats[n].conceptId, cats[n].variables[i].conceptId>> :
              i \in 1..Len(cats[n].variables) } :
          n \in 1..Len(cats) }

\* The number of edges the catalogs describe.
RECURSIVE CatalogEdgeCount(_)
CatalogEdgeCount(cats) ==
  IF cats = <<>> THEN 0
  ELSE Len(Head(cats).variables) + Len(Head(cats).variableEdges)
       + CatalogEdgeCount(Tail(cats))

\* The pairs of concept ids the edges of type T of g join.
GraphPairs(g, T) ==
  { <<g.vertices[g.edges[k].from].ConceptId, g.vertices[g.edges[k].to].ConceptId>> :
      k \in { j \in 1..Len(g.edges) : g.edges[j].Type = T } }

\* g is exactly the catalogs: their collections, variables and edges and
\* nothing else.
IsFresh(g, cats) ==
  /\ g.vertices = CatalogVertices(cats)
  /\ Len(g.edges) = CatalogEdgeCount(cats)
  /\ \A k \in 1..Len(g.edges) : g.edges[k].Type \in {"HASVARIABLE", "REQUIRES"}
  /\ GraphPairs(g, "HASVARIABLE") = CatalogHasVariable(cats)
  /\ GraphPairs(g, "REQUIRES") = CatalogRequires(cats)

\* What holds of every state of a run of the script.
C11_Safe ==
  \* the database holds what it held before the run, or exactly the catalogs
  /\ pop.pc # "idle" =>
       IF pop.tx = "committed" THEN IsFresh(graph, collections)
       ELSE graph = pop.before
  \* a transaction that committed was not sent a rollback, and one that was
  \* sent a rollback has not committed
  /\ pop.tx = "committed" => (pop.thrown = "none" /\ pop.pc # "awaitRollback")
  /\ pop.tx = "rolledBack" => pop.thrown # "none"
  \* the commit is sent only after every CREATE has resolved
  /\ pop.pc = "awaitCommit" => IsFresh(pop.work, collections)
  \* the session is closed when the script has ended
  /\ pop.pc \in {"done", "failed"} =>
       /\ pop.session = "closed"
       /\ pop.tx \in {"committed", "rolledBack", "failed"}

\* C11: populateDatabase is all or nothing.  Whichever step fails, the
\* database afterwards holds exactly what it held before (rolled back) or
\* exactly the collections, variables and edges of the catalogs (committed);
\* the transaction is never both committed and rolled back, and once it is
\* either it stays so and the database changes no more; the session is
\* closed in every outcome.
C11_AllOrNothing ==
  /\ []C11_Safe
  /\ [][pop.tx \in {"committed", "rolledBack"}
          => (pop'.tx = pop.tx /\ graph' = graph)]_vars

\* C11 witness: the script ran on a database that held another catalog and
\* committed the two catalogs.
C11_Witness ==
  /\ pop.pc = "done"
  /\ pop.tx = "committed"
  /\ collections = <<rssmif16d, atl08>>
  /\ pop.before = Loaded(EmptyGraph, <<GenCollection(<<>>)>>)
  /\ graph # pop.before
  /\ IsFresh(graph, collections)

\* s is the beginning of t.
IsPrefix(s, t) == Len(s) <= Len(t) /\ SubSeq(t, 1, Len(s)) = s

\* What holds of every state of an invocation.
C12_Safe ==
  \* every query was sent for a varInfo that has a variables property
  /\ \A k \in 1..Len(runs) : heap[runs[k].ref].has
  /\ \A c \in Calls :
       call[c].pc # "idle" =>
         /\ Len(heap) = Len(call[c].before)
         /\ \A ref \in 1..Len(heap) :
              \* the variables at the call are the beginning of the list
              /\ heap[ref].has = call[c].before[ref].has
              /\ IsPrefix(call[c].before[ref].variables, heap[ref].variables)
              \* a varInfo without variables is as it was
              /\ ~call[c].before[ref].has => heap[ref] = call[c].before[ref]

\* A step of an invocation: when getRequiredVariables returns an array to
\* the loop body, the varInfo of this round gets, after the variables it
\* has, the rows whose concept id it does not have, in the order of the
\* store's answer, and no other varInfo changes; no other step changes a
\* varInfo.
C12_Step ==
  IF \E c \in Calls : /\ call[c].pc = "awaitDriverClose"
                      /\ call'[c] # call[c]
                      /\ call[c].requiredVariables.defined
  THEN LET c == CHOOSE d \in Calls : call[d].pc = "awaitDriverClose"
                                     /\ call'[d] # call[d]
           ref == call[c].args[call[c].i]
           rows == call[c].requiredVariables.array
           Absent(v) == v.meta.concept_id \notin IdSet(heap[ref].variables)
       IN  heap' = [heap EXCEPT ![ref].variables = @ \o SelectSeq(rows, Absent)]
  ELSE heap' = heap

\* C12: addRequiredVariables only appends.  The variables a varInfo had at
\* the call stay the beginning of its list, in their order; what is appended
\* is exactly the rows of the store's answer whose concept id the list did
\* not have, in the order of the answer; a varInfo without a variables
\* property is left as it was and no query is sent for it.
C12_MergeFrameAndOrder ==
  /\ []C12_Safe
  /\ [][C12_Step]_vars

\* C12 witness: of two varInfos the first has no variables property and is
\* as it was; the second named the first variable of the catalog and got the
\* third and the second appended, in that order.
C12_Witness ==
  /\ call[1].pc = "done"
  /\ Len(heap) = 2
  /\ ~heap[1].has
  /\ Len(runs) = 1
  /\ call[1].before[2].variables = <<GenRequested(1)>>
  /\ heap[2].variables = <<GenRequested(1), GenRequested(3), GenRequested(2)>>

\* The arrays of varInfos with which one invocation, run alone on the
\* database g, can end when it is called with the array h and goes into its
\* loop at position `from`: a query that fails ends the invocation; one that
\* succeeds merges its rows, in any order the store may give them.
RECURSIVE AloneFrom(_, _, _)
AloneFrom(g, h, from) ==
  LET args == [k \in 1..Len(h) |-> k]
      j == NextWithVariables(h, args, from)
  IN  IF j > Len(h) THEN {h}
      ELSE {h} \cup UNION {
             AloneFrom(g,
                       [h EXCEPT ![j].variables =
                          MergeRequired(@, extractVariableResults(records))],
                       j + 1) :
               records \in Orderings(
                 requiredVariableQuery(g, ConceptIdsOf(h[j].variables))) }

\* The arrays with which two invocations can end when the second is called
\* after the first has ended.
OneAfterTheOther(g, h) == UNION { AloneFrom(g, h1, 1) : h1 \in AloneFrom(g, h, 1) }

\* C13: when two invocations whose awaits interleaved in any way have both
\* ended, the varInfos are as two invocations made one after the other on
\* the varInfos of the first call could have left them, and a list that had
\* no concept id twice has none twice.
C13_Serialisable ==
  (\A c \in Overlapping : call[c].pc \in {"done", "threw"}) =>
    /\ heap \in OneAfterTheOther(graph, call[1].before)
    /\ \A ref \in 1..Len(heap) :
         NoRepeatedId(call[1].before[ref].variables)
           => NoRepeatedId(heap[ref].variables)

\* C13 witness: both invocations read the varInfo's one variable and sent
\* their queries before either merged; both got two rows, and both have
\* returned.
C13_Witness ==
  /\ \A c \in Overlapping : call[c].pc = "done"
  /\ Len(runs) = 2
  /\ runs[1].call = 1
  /\ runs[2].call = 2
  /\ runs[1].ref = runs[2].ref
  /\ Len(runs[1].ids) = 1
  /\ runs[2].ids = runs[1].ids
  /\ Len(heap[runs[1].ref].variables) = 3

\* What holds of every state of an invocation.
C14_Safe ==
  \* while the query is out, the one driver and the one session of this
  \* getRequiredVariables call are open
  /\ call[1].pc \in {"awaitRun", "awaitSessionClose"} =>
       (call[1].session = "open" /\ call[1].driver = "open")
  \* the driver is closed after the session
  /\ call[1].pc = "awaitDriverClose" =>
       (call[1].session = "closed" /\ call[1].driver = "open")
  /\ call[1].driver \in {"none", "closed"} => call[1].session \in {"none", "closed"}
  \* nothing is open when addRequiredVariables has ended
  /\ call[1].pc \in {"done", "threw"} =>
       /\ call[1].session = IF runs = <<>> THEN "none" ELSE "closed"
       /\ call[1].driver = IF runs = <<>> THEN "none" ELSE "closed"
  \* an error that .catch logged leaves no result
  /\ (call[1].caught # "none" /\ call[1].pc # "awaitRun")
       => ~call[1].requiredVariables.defined

\* A step of an invocation: a driver and a session are opened exactly when
\* a query is sent, one of each; the driver is closed only once the session
\* is; the database is not changed.
C14_Step ==
  /\ graph' = graph
  /\ (Len(runs') = Len(runs) + 1)
       <=> (call'[1].pc = "awaitRun" /\ call[1].pc # "awaitRun")
  /\ Len(runs') \in {Len(runs), Len(runs) + 1}
  /\ call'[1].pc = "awaitRun" =>
       (call'[1].session = "open" /\ call'[1].driver = "open")
  /\ (call[1].pc = "awaitDriverClose" /\ call'[1] # call[1])
       => call[1].session = "closed"

\* C14: every getRequiredVariables call opens one driver and one session;
\* whether the query succeeds, the query is rejected or the results callback
\* throws, the session is closed and then the driver, so that neither is
\* open when addRequiredVariables has ended; the database is never changed
\* by a resolution.
C14_ConnectionLifecycle ==
  /\ []C14_Safe
  /\ [][C14_Step]_vars
  /\ (call[1].pc = "awaitRun") ~> (call[1].pc = "awaitDriverClose")
  /\ (call[1].pc = "awaitDriverClose") ~> (call[1].pc # "awaitDriverClose")
  /\ (call[1].pc # "idle") ~> (call[1].pc \in {"done", "threw"})

\* C14 witness: the first query succeeded, the results callback threw on
\* the second, and the invocation has ended with both connections closed.
C14_Witness ==
  /\ call[1].pc = "threw"
  /\ call[1].caught = "resultsCallback"
  /\ Len(runs) = 2
  /\ call[1].session = "closed"
  /\ call[1].driver = "closed"

=============================================================================
